---- MODULE Spec2Model ----
(***************************************************************************)
(* Coqtail (autoload/coqtail.py): the document/prover synchronization      *)
(* engine of one Coqtail object.                                           *)
(*                                                                         *)
(* The model follows the Python source function by function.  A position   *)
(* is a pair <<line, col>>, zero-based as in the source; a buffer line is  *)
(* a sequence of one-character strings; Python's None is the empty tuple.  *)
(* Every handler (next, rewind, to_cursor, to_top, rewind_to, sync) is one *)
(* action; the answers of the collaborators it calls (coqtop.dispatch,     *)
(* coqtop.rewind, vimbufsync.sync, the window cursor) are its inputs.      *)
(***************************************************************************)
EXTENDS Integers, Sequences, FiniteSets, TLC

None == <<>>

Min(a, b) == IF a <= b THEN a ELSE b

Max(a, b) == IF a >= b THEN a ELSE b

(***************************************************************************)
(* Python tuple comparison on (line, col) pairs                            *)
(***************************************************************************)
PosLT(p, q) == p[1] < q[1] \/ (p[1] = q[1] /\ p[2] < q[2])

PosLE(p, q) == p = q \/ PosLT(p, q)

PosGT(p, q) == PosLT(q, p)

(***************************************************************************)
(* Python str operations on sequences of characters (indices zero-based)   *)
(***************************************************************************)
\* str.lstrip() / str.rstrip() strip these; the model's alphabet has two
Whitespace == {" ", "\t"}

\* s[a:b] for 0 <= a, 0 <= b
Slice(s, a, b) == IF a >= Min(b, Len(s)) THEN <<>> ELSE SubSeq(s, a + 1, Min(b, Len(s)))

\* s[a:]
SliceFrom(s, a) == Slice(s, a, Len(s))

\* s[:-k] for an int k: -k < 0 counts from the end, -0 is 0, -k > 0 is a length
SliceToNeg(s, k) == IF k > 0 THEN Slice(s, 0, Max(0, Len(s) - k)) ELSE Slice(s, 0, 0 - k)

\* s.find(sub): the lowest index where sub occurs, or -1
StrFind(s, sub) ==
    LET hits == {i \in 0..(Len(s) - Len(sub)) : Slice(s, i, i + Len(sub)) = sub}
    IN  IF hits = {} THEN 0 - 1 ELSE CHOOSE i \in hits : \A j \in hits : i <= j

StartsWith(s, sub) == Slice(s, 0, Len(sub)) = sub

LStrip(s) ==
    LET keep == {i \in 1..Len(s) : s[i] \notin Whitespace}
    IN  IF keep = {} THEN <<>> ELSE SubSeq(s, CHOOSE i \in keep : \A j \in keep : i <= j, Len(s))

RStrip(s) ==
    LET keep == {i \in 1..Len(s) : s[i] \notin Whitespace}
    IN  IF keep = {} THEN <<>> ELSE SubSeq(s, 1, CHOOSE i \in keep : \A j \in keep : i >= j)

\* buf[line] for a zero-based line index
BufLine(buf, line) == buf[line + 1]

(***************************************************************************)
(* Finding start and end of Coq chunks                                     *)
(***************************************************************************)
RECURSIVE _skip_block(_, _, _, _, _, _)
_skip_block(buf, sline, scol, estr, sstr, nesting) ==
    IF nesting = 0 THEN <<sline, scol>>
    ELSE IF sline >= Len(buf) THEN None
    ELSE LET line == SliceFrom(BufLine(buf, sline), scol)
             blk_end == StrFind(line, estr)
             blk_start == IF sstr # None THEN StrFind(line, sstr) ELSE 0 - 1
         IN  IF blk_end # 0 - 1 /\ (blk_end < blk_start \/ blk_start = 0 - 1)
             THEN _skip_block(buf, sline, scol + blk_end + Len(estr), estr, sstr, nesting - 1)
             ELSE IF blk_start # 0 - 1
             THEN _skip_block(buf, sline, scol + blk_start + Len(sstr), estr, sstr, nesting + 1)
             ELSE _skip_block(buf, sline + 1, 0, estr, sstr, nesting)

_skip_str(buf, sline, scol) == _skip_block(buf, sline, scol, <<"\"">>, None, 1)

\* A comment skipped without nesting: up to the first close
SkipToFirstClose(buf, sline, scol) == _skip_block(buf, sline, scol, <<"*", ")">>, None, 1)

_skip_comment(buf, sline, scol) == _skip_block(buf, sline, scol, <<"*", ")">>, <<"(", "*">>, 1)

\* A slip in the column: the index in the slice, not in the line
DotInSlice(sline, scol, dot_pos) == <<sline, dot_pos>>

\* "return (sline, scol + dot_pos)"
DotAt(sline, scol, dot_pos) == <<sline, scol + dot_pos>>

\* A slip in the ellipsis: the dot after the first one
EllipsisSecond(sline, scol, dot_pos) == <<sline, scol + dot_pos + 1>>

\* "return (sline, scol + dot_pos + 2)"
EllipsisEnd(sline, scol, dot_pos) == <<sline, scol + dot_pos + 2>>

\* A slip in the skip: the search goes on from the dot itself
OnDot(sline, scol, dot_pos) == <<sline, scol + dot_pos>>

\* "return _find_dot_after(sline, scol + dot_pos + 1)": where it goes on
PastDot(sline, scol, dot_pos) == <<sline, scol + dot_pos + 1>>

RECURSIVE _find_dot_after(_, _, _)
_find_dot_after(buf, sline, scol) ==
    IF sline >= Len(buf) THEN None
    ELSE LET line == SliceFrom(BufLine(buf, sline), scol)
             dot_pos == StrFind(line, <<".">>)
             com_pos == StrFind(line, <<"(", "*">>)
             str_pos == StrFind(line, <<"\"">>)
         IN  IF com_pos = 0 - 1 /\ dot_pos = 0 - 1 /\ str_pos = 0 - 1
             THEN _find_dot_after(buf, sline + 1, 0)
             ELSE IF dot_pos = 0 - 1 \/ (0 <= com_pos /\ com_pos < dot_pos)
                                     \/ (0 <= str_pos /\ str_pos < dot_pos)
             THEN IF str_pos = 0 - 1 \/ (0 <= com_pos /\ com_pos < str_pos)
                  THEN LET com_end == _skip_comment(buf, sline, scol + com_pos + 2)
                       IN  IF com_end = None THEN None
                           ELSE _find_dot_after(buf, com_end[1], com_end[2])
                  ELSE LET str_end == _skip_str(buf, sline, scol + str_pos + 1)
                       IN  IF str_end = None THEN None
                           ELSE _find_dot_after(buf, str_end[1], str_end[2])
             ELSE IF Slice(line, dot_pos, dot_pos + 2) \in {<<".">>, <<".", " ">>}
             THEN DotAt(sline, scol, dot_pos)
             ELSE IF Slice(line, dot_pos, dot_pos + 3) = <<".", ".", ".">>
             THEN EllipsisEnd(sline, scol, dot_pos)
             ELSE _find_dot_after(buf, PastDot(sline, scol, dot_pos)[1],
                                  PastDot(sline, scol, dot_pos)[2])

bullets == {"{", "}", "-", "+", "*"}

\* The "for line in range(sline, blen)" loop that skips leading whitespace:
\* found is FALSE when the loop ends without break (the for's else branch).
RECURSIVE SkipLeadingWhitespace(_, _, _)
SkipLeadingWhitespace(buf, line, col) ==
    IF line >= Len(buf) THEN [found |-> FALSE, line |-> line, col |-> col, first_line |-> <<>>]
    ELSE LET rest == SliceFrom(BufLine(buf, line), col)
             first_line == LStrip(rest)
         IN  IF RStrip(first_line) # <<>>
             THEN [found |-> TRUE, line |-> line,
                   col |-> col + (Len(rest) - Len(first_line)), first_line |-> first_line]
             ELSE SkipLeadingWhitespace(buf, line + 1, 0)

\* One pass of "while True" per call: whitespace, then one leading comment.
RECURSIVE _find_next_chunk(_, _, _)
_find_next_chunk(buf, sline, scol) ==
    LET ws == SkipLeadingWhitespace(buf, sline, scol)
    IN  IF ~ws.found THEN None
        ELSE IF StartsWith(ws.first_line, <<"(", "*">>)
        THEN LET com_end == _skip_comment(buf, ws.line, ws.col + 2)
             IN  IF com_end = None THEN None
                 ELSE _find_next_chunk(buf, com_end[1], com_end[2])
        ELSE IF ws.first_line[1] \in bullets THEN <<ws.line, ws.col + 1>>
        ELSE _find_dot_after(buf, ws.line, ws.col)

_get_message_range(buf, after) ==
    LET end_pos == _find_next_chunk(buf, after[1], after[2])
    IN  IF end_pos # None THEN [start |-> after, stop |-> end_pos] ELSE None

\* s[:b]: a negative b counts from the end
SliceTo(s, b) == IF b >= 0 THEN Slice(s, 0, b) ELSE Slice(s, 0, Max(0, Len(s) + b))

\* Calculate the line and column of a given offset: the line is relative to
\* the line msg starts on, col is the column msg starts at
_pos_from_offset(col, msg, offset) ==
    LET head == SliceTo(msg, offset)
        newlines == {i \in 1..Len(head) : head[i] = "\n"}
        line == Cardinality(newlines)
        last_break == IF newlines = {} THEN 0
                      ELSE CHOOSE i \in newlines : \A j \in newlines : j <= i
    IN  <<line, (Len(head) - last_break) + (IF line = 0 THEN col ELSE 0)>>

\* '\n'.join(lines) for a list of lines
RECURSIVE JoinLines(_)
JoinLines(lines) ==
    IF lines = <<>> THEN <<>>
    ELSE IF Len(lines) = 1 THEN lines[1]
    ELSE lines[1] \o <<"\n">> \o JoinLines(Tail(lines))

\* The text between a start and an end point, both inside buf[0:len(buf)]
_between(buf, start, end) ==
    LET sline == start[1]
        scol == start[2]
        eline == end[1]
        ecol == end[2]
        lines == [idx \in 0..(Min(eline, Len(buf) - 1) - sline) |->
                     LET line == BufLine(buf, sline + idx)
                         lcol == IF idx = 0 THEN scol ELSE 0
                         rcol == IF idx = eline - sline THEN ecol + 1 ELSE Len(line)
                     IN  Slice(line, lcol, rcol)]
    IN  JoinLines([i \in 1..(Min(eline, Len(buf) - 1) - sline + 1) |-> lines[i - 1]])

(***************************************************************************)
(* The engine.  self is the Coqtail object as a record:                    *)
(*   saved_sync  the last vimbufsync BufferRevision, or None               *)
(*   endpoints   the stack of end positions of the chunks sent to Coqtop   *)
(*   send_queue  the queue of chunks to send to Coqtop                     *)
(*   error_at    the position of the last error, or None                   *)
(*   info_msg    the text to display in the info panel                     *)
(*   coqtop      the prover: the number of in-script sentences it holds,   *)
(*               and whether it is one that puts text and error offsets    *)
(*               in its answers                                            *)
(*   hist        what the handler did, kept for the properties below:      *)
(*               the prover calls it made with their answers, the stack    *)
(*               once sync() returned, the queue when the drain began,     *)
(*               the error regions reset_color() highlighted               *)
(* The goal panel (goal_msg) and the colours are display only.             *)
(***************************************************************************)
\* synced and queued hold one element once set
NoHist == [calls |-> <<>>, synced |-> <<>>, queued |-> <<>>, errors |-> <<>>]

Called(s, call) == [s EXCEPT !.hist.calls = Append(@, call)]

\* The prover's side of coqtop.rewind(steps): on success it has retracted
\* steps + extra_steps sentences.
coqtop_rewind(coqtop, steps, ans) ==
    IF ans.kind = "ok" THEN [coqtop EXCEPT !.accepted = Max(0, @ - (steps + ans.extra_steps))]
    ELSE coqtop

\* The prover's side of coqtop.dispatch(message): an accepted sentence is held.
coqtop_dispatch(coqtop, ans) ==
    IF ans.kind = "ok" THEN [coqtop EXCEPT !.accepted = @ + 1] ELSE coqtop

\* coqtail#Stop(), the editor command fail() runs on a dispatch error: the
\* pending sends are dropped, what the prover confirmed is kept.
\* A slip in the stop: the prover is stopped, the pending sends are kept
StopsProverOnly(s) == s

coqtail_Stop(s) == [s EXCEPT !.send_queue = <<>>]

\* A slip in the failure: the error is printed and nothing is stopped
PrintOnly(s) == s

\* "print(err, file=sys.stderr); vim.command('call coqtail#Stop()')"
fail(s) == coqtail_Stop(s)

\* A slip in the diagnostic: the engine forgets what the prover confirmed
Forgets(s) == [s EXCEPT !.endpoints = <<>>]

\* "print(...)": a diagnostic, nothing else
unexpected(s) == s

\* "if self.error_at is not None": the region is highlighted, then forgotten
reset_color(s) ==
    IF s.error_at # None
    THEN [s EXCEPT !.hist.errors = Append(@, s.error_at), !.error_at = None]
    ELSE s

\* A slip in the reset: the panels' texts are left as they were
ResetScript(s) ==
    reset_color([s EXCEPT !.saved_sync = None, !.endpoints = <<>>, !.send_queue = <<>>,
                          !.error_at = None])

_reset(s) ==
    reset_color([s EXCEPT !.saved_sync = None, !.endpoints = <<>>, !.send_queue = <<>>,
                          !.error_at = None, !.info_msg = ""])

\* goals is what coqtop.goals() answers: (success, msg, goals) or CoqtopError
show_goal(s, goals) ==
    LET s1 == Called(s, [call |-> "goals", ans |-> goals])
    IN  IF goals.kind = "error" THEN fail(s1)
        ELSE IF goals.kind # "ok" THEN unexpected(s1)
        ELSE IF goals.msg # "" THEN [s1 EXCEPT !.info_msg = goals.msg]
        ELSE s1

\* The info panel is written from info_msg
show_info(s) == s

clear_info(s) == show_info([s EXCEPT !.info_msg = ""])

refresh(s, goals) == reset_color(show_info(show_goal(s, goals)))

\* A slip in the pop: the steps asked for, without the prover's extra steps
PopSteps(stack, steps, extra_steps) == SliceToNeg(stack, steps)

\* A slip in the pop: the prover's extra steps alone
PopExtra(stack, steps, extra_steps) == SliceToNeg(stack, extra_steps)

\* "self.endpoints[:-(steps + extra_steps)]"
Pop(stack, steps, extra_steps) == SliceToNeg(stack, steps + extra_steps)

rewind(s, steps, ans, goals) ==
    IF steps < 1 \/ s.endpoints = <<>> THEN s
    ELSE LET s1 == Called([s EXCEPT !.coqtop = coqtop_rewind(@, steps, ans)],
                          [call |-> "rewind", steps |-> steps, ans |-> ans])
         IN  IF ans.kind = "error" THEN fail(s1)
             ELSE IF ans.kind = "ok"
             THEN refresh([s1 EXCEPT !.endpoints = Pop(@, steps, ans.extra_steps)], goals)
             ELSE refresh(unexpected(s1), goals)

\* A slip in the count: the endpoints at the location are counted too
CountAtOrAfter(stack, line, col) ==
    Cardinality({i \in 1..Len(stack) : PosLE(<<line, col>>, stack[i])})

\* "sum(pos > (line, col) for pos in self.endpoints)"
StepsTooFar(stack, line, col) ==
    Cardinality({i \in 1..Len(stack) : PosGT(stack[i], <<line, col>>)})

rewind_to(s, line, col, ans, goals) ==
    rewind(s, StepsTooFar(s.endpoints, line, col), ans, goals)

\* A slip in the anchor: Vim's line number taken as a zero-based line
AnchorLine(pos) == <<pos[1], pos[2]>>

\* "(line, col) = self.saved_sync.pos(); self.rewind_to(line - 1, col)"
Anchor(pos) == <<pos[1] - 1, pos[2]>>

\* curr_sync is vimbufsync.sync(); pos is what saved_sync.pos() answers now.
sync(s, curr_sync, pos, ans, goals) ==
    LET s1 == IF s.saved_sync = None \/ curr_sync.buf # s.saved_sync.buf THEN _reset(s)
              ELSE rewind_to(s, Anchor(pos)[1], Anchor(pos)[2], ans, goals)
    IN  [s1 EXCEPT !.saved_sync = curr_sync, !.hist.synced = <<s1.endpoints>>]

\* A slip in the push: the chunk's stop itself, not the position after it
PushStop(s, to_send) == [s EXCEPT !.endpoints = Append(@, to_send.stop)]

\* "(line, col) = to_send['stop']; self.endpoints.append((line, col + 1))"
PushEndpoint(s, to_send) ==
    [s EXCEPT !.endpoints = Append(@, <<to_send.stop[1], to_send.stop[2] + 1>>)]

\* A slip in the location: the offsets taken as columns of the first line
OffsetsAsColumns(to_send, message, err_loc) ==
    <<<<to_send.start[1], err_loc[1]>>, <<to_send.start[1], err_loc[2]>>>>

\* "Highlight error location": err_loc is (loc_s, loc_e) of the dispatch
ErrorLocation(to_send, message, err_loc) ==
    IF err_loc[1] = err_loc[2] /\ err_loc[2] = 0 - 1
    THEN <<to_send.start, to_send.stop>>
    ELSE LET line == to_send.start[1]
             col == to_send.start[2]
             spos == _pos_from_offset(col, message, err_loc[1])
             epos == _pos_from_offset(col, message, err_loc[2])
         IN  <<<<line + spos[1], spos[2]>>, <<line + epos[1], epos[2]>>>>

\* A slip in the queue: the unit queued last is taken first
pop(queue) == [unit |-> queue[Len(queue)], rest |-> SubSeq(queue, 1, Len(queue) - 1)]

\* "to_send = self.send_queue.popleft()"
popleft(queue) == [unit |-> Head(queue), rest |-> Tail(queue)]

\* A slip in the collection: the message of a rejected unit is dropped
AppendIfAccepted(msgs, msg, success) == IF success THEN Append(msgs, msg) ELSE msgs

\* "msgs.append(msg)", which comes before "if success"
msgs_append(msgs, msg, success) == Append(msgs, msg)

\* The "while self.send_queue" loop; answers are the prover's answers in
\* order, said their messages, err_loc the offsets that come with a rejection,
\* msgs the messages appended so far.
\* returned is TRUE when the loop was left by "fail(e); return".
RECURSIVE SendLoop(_, _, _, _, _, _)
SendLoop(s, buf, answers, said, err_loc, msgs) ==
    IF s.send_queue = <<>> THEN [self |-> s, returned |-> FALSE, msgs |-> msgs]
    ELSE LET s0 == reset_color(s)
             to_send == popleft(s0.send_queue).unit
             message == _between(buf, to_send.start, to_send.stop)
             ans == Head(answers)
             s1 == Called([s0 EXCEPT !.send_queue = popleft(@).rest,
                                     !.coqtop = coqtop_dispatch(@, ans)],
                          [call |-> "dispatch", unit |-> to_send, message |-> message,
                           ans |-> ans, stack |-> s0.endpoints])
         IN  IF ans.kind = "error"
             THEN [self |-> fail(s1), returned |-> TRUE, msgs |-> msgs]
             ELSE IF ans.kind = "ok"
             THEN SendLoop(PushEndpoint(s1, to_send), buf, Tail(answers), Tail(said),
                           err_loc, msgs_append(msgs, Head(said), TRUE))
             ELSE SendLoop([s1 EXCEPT !.send_queue = <<>>,
                                      !.error_at = ErrorLocation(to_send, message, err_loc)],
                           buf, Tail(answers), Tail(said), err_loc,
                           msgs_append(msgs, Head(said), FALSE))

\* '\n\n'.join(msg for msg in msgs if msg != '')
RECURSIVE JoinMsgs(_)
JoinMsgs(msgs) ==
    LET kept == SelectSeq(msgs, LAMBDA msg : msg # "")
    IN  IF kept = <<>> THEN ""
        ELSE IF Len(kept) = 1 THEN kept[1]
        ELSE kept[1] \o "\n\n" \o JoinMsgs(Tail(kept))

send_until_fail(s, buf, answers, said, err_loc, goals) ==
    LET r == SendLoop([s EXCEPT !.hist.queued = <<s.send_queue>>], buf, answers, said,
                      err_loc, <<>>)
    IN  IF r.returned THEN r.self
        ELSE refresh([clear_info(r.self) EXCEPT !.info_msg = JoinMsgs(r.msgs)], goals)

\* A slip in the frontier: every scan starts at the top of the document
AlwaysTop(s) == <<0, 0>>

\* "(line, col) = self.endpoints[-1]" or (0, 0)
LastEndpoint(s) == IF s.endpoints # <<>> THEN s.endpoints[Len(s.endpoints)] ELSE <<0, 0>>

\* A slip in the early return: the panels are refreshed all the same
RefreshAndReturn(s) == refresh(s, [kind |-> "ok", msg |-> ""])

\* "if to_send is None: return"
NothingToSend(s) == s

\* said is what the prover puts in its answers besides success: the goals
\* answers to sync's refresh and to the command's own (sync_goals, goals), the
\* messages of the dispatches (msgs) and the offsets of a rejection (err_loc)
next(s, buf, curr_sync, pos, sync_ans, answers, said) ==
    LET s1 == sync(s, curr_sync, pos, sync_ans, said.sync_goals)
        to_send == _get_message_range(buf, LastEndpoint(s1))
    IN  IF to_send = None THEN NothingToSend(s1)
        ELSE send_until_fail([s1 EXCEPT !.send_queue = Append(@, to_send)], buf, answers,
                             said.msgs, said.err_loc, said.goals)

\* A slip in the bound: a chunk that ends on the cursor is left out
EndsBefore(to_send, cursor) == PosLT(to_send.stop, <<cursor[1] - 1, cursor[2]>>)

\* "to_send['stop'] <= (cline - 1, ccol)"
EndsByCursor(to_send, cursor) == PosLE(to_send.stop, <<cursor[1] - 1, cursor[2]>>)

\* A slip in the target: the cursor itself, not the position after it
CursorItself(cursor) == <<cursor[1] - 1, cursor[2]>>

\* "self.rewind_to(cline - 1, ccol + 1)"
CursorTarget(cursor) == <<cursor[1] - 1, cursor[2] + 1>>

\* The "while to_send is not None and to_send['stop'] <= (cline - 1, ccol)" loop
RECURSIVE EnqueueLoop(_, _, _, _)
EnqueueLoop(s, buf, to_send, cursor) ==
    IF to_send # None /\ EndsByCursor(to_send, cursor)
    THEN EnqueueLoop([s EXCEPT !.send_queue = Append(@, to_send)], buf,
                     _get_message_range(buf, <<to_send.stop[1], to_send.stop[2] + 1>>),
                     cursor)
    ELSE s

\* cursor is vim.current.window.cursor: (cline, ccol), cline counted from 1
to_cursor(s, buf, curr_sync, pos, sync_ans, cursor, ans, answers, said) ==
    LET s1 == sync(s, curr_sync, pos, sync_ans, said.sync_goals)
        cline == cursor[1]
        ccol == cursor[2]
        line == LastEndpoint(s1)[1]
        col == LastEndpoint(s1)[2]
    IN  IF cline - 1 < line \/ (cline - 1 = line /\ ccol < col)
        THEN rewind_to(s1, CursorTarget(cursor)[1], CursorTarget(cursor)[2], ans,
                       said.goals)
        ELSE send_until_fail(
                 EnqueueLoop(s1, buf, _get_message_range(buf, <<line, col>>), cursor),
                 buf, answers, said.msgs, said.err_loc, said.goals)

to_top(s, ans, goals) == rewind_to(s, 0, 1, ans, goals)

(***************************************************************************)
(* The documents, the prover's answers and the editor's inputs             *)
(***************************************************************************)
\* Three sentences, one on each line
DocGoal == << <<"a", ".">>, <<"b", ".">>, <<"c", ".">> >>

\* A lone period at the very start, then a sentence
DocDot == << <<".", " ", "a", ".">> >>

\* A bullet alone on its line, a comment holding a period, a sentence
DocBullet == << <<"-">>, <<"(", "*", ".", "*", ")", "a", ".">> >>

\* The empty buffer: Vim keeps one empty line
DocEmpty == << <<>> >>

Docs == {DocGoal, DocDot, DocBullet, DocEmpty}

NumBuffers == 2

MaxExtraSteps == 1

MaxSteps == 2

MaxAccepted == 3

Buffers == 1..NumBuffers

\* What coqtop.rewind(steps) can answer: (success, extra_steps), or CoqtopError
RewindAnswers ==
    {[kind |-> "ok", extra_steps |-> e] : e \in 0..MaxExtraSteps}
        \cup {[kind |-> "unexpected", extra_steps |-> 0], [kind |-> "error", extra_steps |-> 0]}

\* The answer of a call that is never made
NoAnswer == [kind |-> "none", extra_steps |-> 0]

Repeat(x, n) == [i \in 1..n |-> x]

\* What coqtop.dispatch can answer to a queue of m chunks, in order: the
\* prover is asked nothing more after a rejection or a CoqtopError.
DispatchAnswers(m) ==
    {Repeat([kind |-> "ok"], m)}
        \cup {Append(Repeat([kind |-> "ok"], k - 1), [kind |-> f]) :
                  k \in 1..m, f \in {"reject", "error"}}

\* What the prover puts in its answers besides success.  A prover that talks
\* answers with messages, error offsets and failing goal queries; one that
\* does not answers every dispatch with an empty message and no location,
\* and every goal query with success and no message.
Messages(prover) == IF prover.talks THEN {"", "m"} ELSE {""}

\* The sentinel of "no location"
NoLocation == <<0 - 1, 0 - 1>>

\* (loc_s, loc_e) of a rejection of message: no location, or its last character
ErrLocs(prover, message) ==
    IF prover.talks THEN {NoLocation, <<Len(message) - 1, Len(message)>>} ELSE {NoLocation}

\* What coqtop.goals() can answer: (success, msg, goals), or CoqtopError
GoalAnswers(prover) ==
    IF prover.talks
    THEN {[kind |-> "ok", msg |-> ""], [kind |-> "ok", msg |-> "g"],
          [kind |-> "unexpected", msg |-> ""], [kind |-> "error", msg |-> ""]}
    ELSE {[kind |-> "ok", msg |-> ""]}

\* The answer of a goal query that is never made
NoGoals == [kind |-> "none", msg |-> ""]

Said(sync_goals, goals, msgs, err_loc) ==
    [sync_goals |-> sync_goals, goals |-> goals, msgs |-> msgs, err_loc |-> err_loc]

NothingSaid == Said(NoGoals, NoGoals, <<>>, NoLocation)

VARIABLES
    buffer,      \* vim.current.buffer: the lines of the document
    bufnr,       \* which buffer vim.current.buffer is
    saved_sync,  \* self.saved_sync
    endpoints,   \* self.endpoints
    send_queue,  \* self.send_queue
    error_at,    \* self.error_at
    info_msg,    \* self.info_msg
    coqtop,      \* self.coqtop
    last         \* the last handler run: its name, inputs and history

vars == <<buffer, bufnr, saved_sync, endpoints, send_queue, error_at, info_msg, coqtop, last>>

Self ==
    [saved_sync |-> saved_sync, endpoints |-> endpoints, send_queue |-> send_queue,
     error_at |-> error_at, info_msg |-> info_msg, coqtop |-> coqtop, hist |-> NoHist]

\* vimbufsync.sync() on the current buffer
CurrSync == [buf |-> bufnr]

\* The zero-based positions of the buffer: on its text or just after a line
Positions == UNION {{<<l, c>> : c \in 0..Len(BufLine(buffer, l))} : l \in 0..(Len(buffer) - 1)}

\* What a position is to Vim: the line counted from 1.  The window cursor and
\* the position BufferRevision.pos() answers are such pairs.
VimPositions == {<<p[1] + 1, p[2]>> : p \in Positions}

Cursors == VimPositions

AnchorPositions == VimPositions

\* The inputs of a command: its argument (the cursor, the step count, the
\* target), what saved_sync.pos() answers, and the prover's answers to sync's
\* rewind, to the command's own rewind and to its dispatches.
In(arg, pos, sync_ans, ans, answers) ==
    [arg |-> arg, pos |-> pos, sync_ans |-> sync_ans, ans |-> ans, answers |-> answers]

Idle == [op |-> "idle", in |-> In(None, None, NoAnswer, NoAnswer, <<>>), same |-> FALSE,
         pre |-> <<>>, calls |-> <<>>, synced |-> <<>>, queued |-> <<>>, out |-> None,
         said |-> NothingSaid, pre_info |-> "", errors |-> <<>>]

SameBuffer(s) == s.saved_sync # None /\ s.saved_sync.buf = bufnr

\* rewind_to(line, col) reaches coqtop.rewind
AsksRewind(s, line, col) == s.endpoints # <<>> /\ StepsTooFar(s.endpoints, line, col) >= 1

\* sync() reads saved_sync.pos() for the same buffer only, and the position
\* decides nothing while the stack is empty
SyncPositions(s) ==
    IF SameBuffer(s) /\ s.endpoints # <<>> THEN AnchorPositions ELSE {<<1, 0>>}

SyncAnswers(s, pos) ==
    IF SameBuffer(s) /\ AsksRewind(s, Anchor(pos)[1], Anchor(pos)[2]) THEN RewindAnswers
    ELSE {NoAnswer}

AnswersIfAsked(s, line, col) == IF AsksRewind(s, line, col) THEN RewindAnswers ELSE {NoAnswer}

\* rewind() refreshes the panels unless it returned early or failed
GoalsAfter(ans) ==
    IF ans.kind \in {"ok", "unexpected"} THEN GoalAnswers(coqtop) ELSE {NoGoals}

\* What the prover says during send_until_fail of a queue, given its answers:
\* a message with each dispatch that returns, offsets with a rejection, and
\* the goals for the refresh unless the drain was left by fail()
DrainSaid(queue, answers) ==
    LET n == Len(answers)
        failed == n > 0 /\ answers[n].kind = "error"
        rejected == n > 0 /\ answers[n].kind = "reject"
        message == _between(buffer, queue[n].start, queue[n].stop)
    IN  {Said(NoGoals, goals, msgs, err_loc) :
             goals \in IF failed THEN {NoGoals} ELSE GoalAnswers(coqtop),
             msgs \in [1..(IF failed THEN n - 1 ELSE n) -> Messages(coqtop)],
             err_loc \in IF rejected THEN ErrLocs(coqtop, message) ELSE {NoLocation}}

\* A command runs to its end in one step; what it did stays in last until
\* the editor is idle again (Return).
Commit(op, in, said, s) ==
    /\ s.coqtop.accepted <= MaxAccepted
    /\ saved_sync' = s.saved_sync
    /\ endpoints' = s.endpoints
    /\ send_queue' = s.send_queue
    /\ error_at' = s.error_at
    /\ info_msg' = s.info_msg
    /\ coqtop' = s.coqtop
    /\ last' = [op |-> op, in |-> in, same |-> SameBuffer(Self),
                pre |-> endpoints, calls |-> s.hist.calls,
                synced |-> s.hist.synced, queued |-> s.hist.queued, out |-> None,
                said |-> said, pre_info |-> info_msg, errors |-> s.hist.errors]
    /\ UNCHANGED <<buffer, bufnr>>

\* A constructed engine whose prover has been started
Constructed ==
    /\ bufnr = 1
    /\ saved_sync = None
    /\ endpoints = <<>>
    /\ send_queue = <<>>
    /\ error_at = None
    /\ info_msg = ""
    /\ last = Idle

Init ==
    /\ buffer \in Docs
    /\ coqtop = [accepted |-> 0, talks |-> FALSE]
    /\ Constructed

AdvanceOne ==
    /\ last.op = "idle"
    /\ \E pos \in SyncPositions(Self) :
           \E sync_ans \in SyncAnswers(Self, pos) :
               \E sync_goals \in GoalsAfter(sync_ans) :
                   LET s1 == sync(Self, CurrSync, pos, sync_ans, sync_goals)
                       to_send == _get_message_range(buffer, LastEndpoint(s1))
                       queue == IF to_send = None THEN <<>> ELSE <<to_send>>
                   IN  \E answers \in DispatchAnswers(Len(queue)) :
                           \E d \in IF to_send = None THEN {NothingSaid}
                                    ELSE DrainSaid(queue, answers) :
                               LET said == [d EXCEPT !.sync_goals = sync_goals]
                               IN  Commit("next", In(None, pos, sync_ans, NoAnswer, answers),
                                          said,
                                          next(Self, buffer, CurrSync, pos, sync_ans,
                                               answers, said))

AdvanceToCursor ==
    /\ last.op = "idle"
    /\ \E pos \in SyncPositions(Self), cursor \in Cursors :
           \E sync_ans \in SyncAnswers(Self, pos) :
               \E sync_goals \in GoalsAfter(sync_ans) :
                   LET s1 == sync(Self, CurrSync, pos, sync_ans, sync_goals)
                       back == PosLT(<<cursor[1] - 1, cursor[2]>>, LastEndpoint(s1))
                       queue == EnqueueLoop(s1, buffer,
                                            _get_message_range(buffer, LastEndpoint(s1)),
                                            cursor).send_queue
                   IN  \E ans \in IF back THEN AnswersIfAsked(s1, CursorTarget(cursor)[1],
                                                              CursorTarget(cursor)[2])
                                  ELSE {NoAnswer} :
                           \E answers \in IF back THEN {<<>>}
                                          ELSE DispatchAnswers(Len(queue)) :
                               \E d \in IF back THEN {Said(NoGoals, g, <<>>, NoLocation) :
                                                         g \in GoalsAfter(ans)}
                                        ELSE DrainSaid(queue, answers) :
                                   LET said == [d EXCEPT !.sync_goals = sync_goals]
                                   IN  Commit("to_cursor",
                                              In(cursor, pos, sync_ans, ans, answers), said,
                                              to_cursor(Self, buffer, CurrSync, pos, sync_ans,
                                                        cursor, ans, answers, said))

Rewind ==
    /\ last.op = "idle"
    /\ \E steps \in 0..MaxSteps :
           \E ans \in IF steps >= 1 /\ endpoints # <<>> THEN RewindAnswers ELSE {NoAnswer} :
               \E goals \in GoalsAfter(ans) :
                   Commit("rewind", In(<<steps>>, None, NoAnswer, ans, <<>>),
                          Said(NoGoals, goals, <<>>, NoLocation),
                          rewind(Self, steps, ans, goals))

RewindTo ==
    /\ last.op = "idle"
    /\ \E target \in Positions :
           \E ans \in AnswersIfAsked(Self, target[1], target[2]) :
               \E goals \in GoalsAfter(ans) :
                   Commit("rewind_to", In(target, None, NoAnswer, ans, <<>>),
                          Said(NoGoals, goals, <<>>, NoLocation),
                          rewind_to(Self, target[1], target[2], ans, goals))

ToTop ==
    /\ last.op = "idle"
    /\ \E ans \in AnswersIfAsked(Self, 0, 1) :
           \E goals \in GoalsAfter(ans) :
               Commit("to_top", In(None, None, NoAnswer, ans, <<>>),
                      Said(NoGoals, goals, <<>>, NoLocation), to_top(Self, ans, goals))

Synchronize ==
    /\ last.op = "idle"
    /\ \E pos \in SyncPositions(Self) :
           \E sync_ans \in SyncAnswers(Self, pos) :
               \E sync_goals \in GoalsAfter(sync_ans) :
                   Commit("sync", In(None, pos, sync_ans, NoAnswer, <<>>),
                          Said(sync_goals, NoGoals, <<>>, NoLocation),
                          sync(Self, CurrSync, pos, sync_ans, sync_goals))

\* The user edits the document between two commands
Edit ==
    /\ last.op = "idle"
    /\ buffer' \in Docs \ {buffer}
    /\ UNCHANGED <<bufnr, saved_sync, endpoints, send_queue, error_at, info_msg, coqtop, last>>

\* Another buffer is the current one when this engine is next called:
\* vimbufsync.sync() then answers for a buffer that is not saved_sync's
SwitchBuffer ==
    /\ last.op = "idle"
    /\ bufnr' \in Buffers \ {bufnr}
    /\ buffer' \in Docs
    /\ UNCHANGED <<saved_sync, endpoints, send_queue, error_at, info_msg, coqtop, last>>

\* The command has returned and the editor waits for the next one
Return ==
    /\ last.op # "idle"
    /\ last' = Idle
    /\ UNCHANGED <<buffer, bufnr, saved_sync, endpoints, send_queue, error_at, info_msg, coqtop>>

Next ==
    \/ AdvanceOne
    \/ AdvanceToCursor
    \/ Rewind
    \/ RewindTo
    \/ ToTop
    \/ Synchronize
    \/ Edit
    \/ SwitchBuffer
    \/ Return

Spec == Init /\ [][Next]_vars

(***************************************************************************)
(* The engine with a prover that talks: messages, error offsets and goal   *)
(* answers of every kind, on documents whose chunks span lines.            *)
(***************************************************************************)
\* Two sentences, the second starting at the end of the first line
DocTwo == << <<"a", ".">>, <<"b", ".">> >>

PanelDocs == {DocTwo}

PanelInit ==
    /\ buffer \in PanelDocs
    /\ coqtop = [accepted |-> 0, talks |-> TRUE]
    /\ Constructed

\* Another buffer with the same text is the current one
PanelSwitch ==
    /\ last.op = "idle"
    /\ bufnr' \in Buffers \ {bufnr}
    /\ UNCHANGED <<buffer, saved_sync, endpoints, send_queue, error_at, info_msg, coqtop, last>>

PanelNext ==
    \/ AdvanceOne
    \/ AdvanceToCursor
    \/ Rewind
    \/ RewindTo
    \/ ToTop
    \/ Synchronize
    \/ PanelSwitch
    \/ Return

PanelSpec == PanelInit /\ [][PanelNext]_vars

(***************************************************************************)
(* The scanner alone: a document, a start position, the chunk found there  *)
(* and the text _between() takes for it.                                   *)
(***************************************************************************)
MaxChars == 4

MaxTokens == 5

MaxLineChars == 2

\* One character of every kind the scanner tells apart
Alphabet == {"a", ".", " ", "\t", "(", "*", ")", "-", "\""}

\* The characters that make lines of a document of two lines
LineAlphabet == {"a", ".", " ", "(", "*", ")"}

\* The pieces comments are made of, each taken whole
Tokens == {<<"(", "*">>, <<"*", ")">>, <<"a">>, <<".">>, <<" ">>}

SeqsUpTo(S, n) == UNION {[1..k -> S] : k \in 0..n}

RECURSIVE Flatten(_)
Flatten(seqs) == IF seqs = <<>> THEN <<>> ELSE Head(seqs) \o Flatten(Tail(seqs))

\* "(* a (* b *) c *) Qed."
DocNested ==
    << <<"(", "*", " ", "a", " ", "(", "*", " ", "b", " ", "*", ")", " ", "c", " ",
         "*", ")", " ", "Q", "e", "d", ".">> >>

\* "Qed..."
DocEllipsis == << <<"Q", "e", "d", ".", ".", ".">> >>

\* "(* . (* - *) . *) Qed.": periods and a bullet inside nested comments
DocDeep ==
    << <<"(", "*", " ", ".", " ", "(", "*", " ", "-", " ", "*", ")", " ", ".", " ",
         "*", ")", " ", "Q", "e", "d", ".">> >>

\* A comment opened on one line and closed on the next, then a sentence
DocSpan == << <<"(", "*", " ", ".">>, <<"-", " ", "*", ")", " ", "a", ".">> >>

ScanDocs ==
    {<<line>> : line \in SeqsUpTo(Alphabet, MaxChars)}
        \cup {<<Flatten(toks)>> : toks \in SeqsUpTo(Tokens, MaxTokens)}
        \cup {<<l1, l2>> : l1 \in SeqsUpTo(LineAlphabet, MaxLineChars),
                           l2 \in SeqsUpTo(LineAlphabet, MaxLineChars)}
        \cup {DocNested, DocEllipsis, DocSpan, DocDeep}

ScanInit ==
    /\ buffer \in ScanDocs
    /\ coqtop = [accepted |-> 0, talks |-> FALSE]
    /\ Constructed

\* _get_message_range(after) and, for a chunk found, _between(start, stop)
\* as send_until_fail takes its text
Scan ==
    \E after \in Positions :
        LET to_send == _get_message_range(buffer, after)
            message == IF to_send = None THEN None
                       ELSE _between(buffer, to_send.start, to_send.stop)
        IN  /\ last' = [Idle EXCEPT !.op = "scan", !.in.arg = after,
                                    !.out = [to_send |-> to_send, message |-> message,
                                             error_at |-> None]]
            /\ UNCHANGED <<buffer, bufnr, saved_sync, endpoints, send_queue, error_at,
                           info_msg, coqtop>>

ScanNext == Scan

ScanSpec == ScanInit /\ [][ScanNext]_vars

(***************************************************************************)
(* The error locator alone: a chunk found by the scanner, its text, the    *)
(* offsets of a rejection and the region send_until_fail records for them. *)
(***************************************************************************)
MaxLocChars == 2

LocAlphabet == {"a", ".", " "}

\* Documents of two lines: a chunk can start mid-line and end on the next
LocateDocs ==
    {<<l1, l2>> : l1 \in SeqsUpTo(LocAlphabet, MaxLocChars),
                  l2 \in SeqsUpTo(LocAlphabet, MaxLocChars)}

LocateInit ==
    /\ buffer \in LocateDocs
    /\ coqtop = [accepted |-> 0, talks |-> TRUE]
    /\ Constructed

\* (loc_s, loc_e) as the prover reports them: no location, or offsets in message
LocOffsets(message) ==
    {NoLocation} \cup {<<a, b>> : a \in 0..Len(message), b \in 0..Len(message)}

\* The rejection branch of send_until_fail for the chunk just scanned
Locate ==
    /\ last.op = "scan"
    /\ last.out.to_send # None
    /\ \E err_loc \in LocOffsets(last.out.message) :
           last' = [last EXCEPT !.op = "locate", !.said.err_loc = err_loc,
                                !.out.error_at =
                                    ErrorLocation(last.out.to_send, last.out.message, err_loc)]
    /\ UNCHANGED <<buffer, bufnr, saved_sync, endpoints, send_queue, error_at, info_msg,
                   coqtop>>

LocateNext == Scan \/ Locate

LocateSpec == LocateInit /\ [][LocateNext]_vars

(***************************************************************************)
(* The commands that scan and send, step by step: each pass of a loop and  *)
(* each recursive call of the scanner is a step, as is each unit queued    *)
(* and each unit dispatched.  While such a command runs, last.out holds    *)
(* its frame: the phase it is in, where the scan began and where it is.    *)
(***************************************************************************)
MaxRunChars == 2

RunAlphabet == {"a", ".", " ", "(", "*", ")", "\""}

\* "a.b. c": the dots of a qualified name are passed over
DocQualified == << <<"a", ".", "b", ".", " ", "c">> >>

\* "\"a.\" b. c.": a period inside a string, then two sentences
DocString == << <<"\"", "a", ".", "\"", " ", "b", ".", " ", "c", ".">> >>

RunDocs ==
    {<<line>> : line \in SeqsUpTo(RunAlphabet, MaxRunChars)}
        \cup {DocGoal, DocBullet, DocSpan, DocQualified, DocString}

\* The scanner's position: which function runs (pc), where it reads, the
\* block it skips (estr, sstr, nesting), the function the skip returns to
\* (resume) and, once it has returned (pc = "done"), its result
Frame(pc, line, col) ==
    [pc |-> pc, line |-> line, col |-> col, estr |-> <<>>, sstr |-> None, nesting |-> 0,
     resume |-> "", result |-> None]

Returned(f, result) == [f EXCEPT !.pc = "done", !.result = result]

SkipFrom(f, line, col, estr, sstr, resume) ==
    [f EXCEPT !.pc = "block", !.line = line, !.col = col, !.estr = estr, !.sstr = sstr,
              !.nesting = 1, !.resume = resume]

\* One pass of the "while True" loop of _find_next_chunk
ChunkStep(buf, f) ==
    LET ws == SkipLeadingWhitespace(buf, f.line, f.col)
    IN  IF ~ws.found THEN Returned(f, None)
        ELSE IF StartsWith(ws.first_line, <<"(", "*">>)
        THEN SkipFrom(f, ws.line, ws.col + 2, <<"*", ")">>, <<"(", "*">>, "chunk")
        ELSE IF ws.first_line[1] \in bullets THEN Returned(f, <<ws.line, ws.col + 1>>)
        ELSE [f EXCEPT !.pc = "dot", !.line = ws.line, !.col = ws.col]

\* One call of _skip_block with nesting >= 1; the call with nesting = 0 that
\* a close can lead to returns at once, to the function that asked
BlockStep(buf, f) ==
    IF f.line >= Len(buf) THEN Returned(f, None)
    ELSE LET line == SliceFrom(BufLine(buf, f.line), f.col)
             blk_end == StrFind(line, f.estr)
             blk_start == IF f.sstr # None THEN StrFind(line, f.sstr) ELSE 0 - 1
         IN  IF blk_end # 0 - 1 /\ (blk_end < blk_start \/ blk_start = 0 - 1)
             THEN [f EXCEPT !.col = f.col + blk_end + Len(f.estr),
                            !.nesting = @ - 1,
                            !.pc = IF f.nesting = 1 THEN f.resume ELSE "block"]
             ELSE IF blk_start # 0 - 1
             THEN [f EXCEPT !.col = f.col + blk_start + Len(f.sstr), !.nesting = @ + 1]
             ELSE [f EXCEPT !.line = @ + 1, !.col = 0]

\* One call of _find_dot_after
DotStep(buf, f) ==
    IF f.line >= Len(buf) THEN Returned(f, None)
    ELSE LET line == SliceFrom(BufLine(buf, f.line), f.col)
             dot_pos == StrFind(line, <<".">>)
             com_pos == StrFind(line, <<"(", "*">>)
             str_pos == StrFind(line, <<"\"">>)
         IN  IF com_pos = 0 - 1 /\ dot_pos = 0 - 1 /\ str_pos = 0 - 1
             THEN [f EXCEPT !.line = @ + 1, !.col = 0]
             ELSE IF dot_pos = 0 - 1 \/ (0 <= com_pos /\ com_pos < dot_pos)
                                     \/ (0 <= str_pos /\ str_pos < dot_pos)
             THEN IF str_pos = 0 - 1 \/ (0 <= com_pos /\ com_pos < str_pos)
                  THEN SkipFrom(f, f.line, f.col + com_pos + 2, <<"*", ")">>, <<"(", "*">>,
                                "dot")
                  ELSE SkipFrom(f, f.line, f.col + str_pos + 1, <<"\"">>, None, "dot")
             ELSE IF Slice(line, dot_pos, dot_pos + 2) \in {<<".">>, <<".", " ">>}
             THEN Returned(f, DotAt(f.line, f.col, dot_pos))
             ELSE IF Slice(line, dot_pos, dot_pos + 3) = <<".", ".", ".">>
             THEN Returned(f, EllipsisEnd(f.line, f.col, dot_pos))
             ELSE [f EXCEPT !.line = PastDot(f.line, f.col, dot_pos)[1],
                            !.col = PastDot(f.line, f.col, dot_pos)[2]]

ScannerStep(buf, f) ==
    IF f.pc = "chunk" THEN ChunkStep(buf, f)
    ELSE IF f.pc = "block" THEN BlockStep(buf, f)
    ELSE DotStep(buf, f)

\* A command that runs: which one (cmd), its cursor, the phase it is in, the
\* start of the scan under way and the scanner's frame
Running(cmd, cursor, phase, start, frame) ==
    [Idle EXCEPT !.op = "running", !.in.arg = cursor,
                 !.out = [cmd |-> cmd, phase |-> phase, start |-> start, frame |-> frame]]

Scanning(cmd, cursor, start) ==
    Running(cmd, cursor, "scan", start, Frame("chunk", start[1], start[2]))

\* The chunk the scan under way has found, once its frame is done
Found ==
    IF last.out.frame.result # None
    THEN [start |-> last.out.start, stop |-> last.out.frame.result]
    ELSE None

RunInit ==
    /\ buffer \in RunDocs
    /\ coqtop = [accepted |-> 0, talks |-> FALSE]
    /\ Constructed

\* next() after sync(): the scan from the frontier begins
RunAdvanceOne ==
    /\ last.op = "idle"
    /\ last' = Scanning("next", None, LastEndpoint(Self))
    /\ UNCHANGED <<buffer, bufnr, saved_sync, endpoints, send_queue, error_at, info_msg,
                   coqtop>>

\* to_cursor() after sync(), the cursor not before the frontier: the scan
\* from the frontier begins
RunAdvanceToCursor ==
    /\ last.op = "idle"
    /\ \E cursor \in Cursors :
           /\ ~PosLT(<<cursor[1] - 1, cursor[2]>>, LastEndpoint(Self))
           /\ last' = Scanning("to_cursor", cursor, LastEndpoint(Self))
    /\ UNCHANGED <<buffer, bufnr, saved_sync, endpoints, send_queue, error_at, info_msg,
                   coqtop>>

\* The scanner makes a step
RunScan ==
    /\ last.op = "running"
    /\ last.out.phase = "scan"
    /\ last.out.frame.pc # "done"
    /\ last' = [last EXCEPT !.out.frame = ScannerStep(buffer, @)]
    /\ UNCHANGED <<buffer, bufnr, saved_sync, endpoints, send_queue, error_at, info_msg,
                   coqtop>>

\* next(): "if to_send is None: return", else the chunk is queued
RunQueueOne ==
    /\ last.op = "running"
    /\ last.out.cmd = "next"
    /\ last.out.phase = "scan"
    /\ last.out.frame.pc = "done"
    /\ IF Found = None
       THEN /\ last' = [last EXCEPT !.out.phase = "returned"]
            /\ UNCHANGED send_queue
       ELSE /\ send_queue' = Append(send_queue, Found)
            /\ last' = [last EXCEPT !.out.phase = "drain"]
    /\ UNCHANGED <<buffer, bufnr, saved_sync, endpoints, error_at, info_msg, coqtop>>

\* to_cursor(): one test of the while loop; the chunk is queued and the scan
\* begins again after it, or the loop is left
RunQueue ==
    /\ last.op = "running"
    /\ last.out.cmd = "to_cursor"
    /\ last.out.phase = "scan"
    /\ last.out.frame.pc = "done"
    /\ IF Found # None /\ EndsByCursor(Found, last.in.arg)
       THEN /\ send_queue' = Append(send_queue, Found)
            /\ last' = Scanning("to_cursor", last.in.arg,
                                <<Found.stop[1], Found.stop[2] + 1>>)
       ELSE /\ last' = [last EXCEPT !.out.phase = "drain"]
            /\ UNCHANGED send_queue
    /\ UNCHANGED <<buffer, bufnr, saved_sync, endpoints, error_at, info_msg, coqtop>>

\* One pass of the "while self.send_queue" loop of send_until_fail
RunDispatch ==
    /\ last.op = "running"
    /\ last.out.phase = "drain"
    /\ send_queue # <<>>
    /\ \E kind \in {"ok", "reject", "error"} :
           LET ans == [kind |-> kind]
               s0 == reset_color(Self)
               to_send == popleft(s0.send_queue).unit
               message == _between(buffer, to_send.start, to_send.stop)
               s1 == [s0 EXCEPT !.send_queue = popleft(@).rest,
                                !.coqtop = coqtop_dispatch(@, ans)]
               s2 == IF kind = "error" THEN fail(s1)
                     ELSE IF kind = "ok" THEN PushEndpoint(s1, to_send)
                     ELSE [s1 EXCEPT !.send_queue = <<>>,
                                     !.error_at = ErrorLocation(to_send, message, NoLocation)]
           IN  /\ endpoints' = s2.endpoints
               /\ send_queue' = s2.send_queue
               /\ error_at' = s2.error_at
               /\ coqtop' = s2.coqtop
               /\ last' = [last EXCEPT !.out.phase = IF kind = "error" THEN "returned"
                                                     ELSE "drain",
                                       !.in.answers = Append(@, ans)]
    /\ UNCHANGED <<buffer, bufnr, saved_sync, info_msg>>

\* The loop is left with the queue empty: the panels are refreshed
RunRefresh ==
    /\ last.op = "running"
    /\ last.out.phase = "drain"
    /\ send_queue = <<>>
    /\ LET s == refresh([clear_info(Self) EXCEPT !.info_msg = ""],
                        [kind |-> "ok", msg |-> ""])
       IN  /\ error_at' = s.error_at
           /\ info_msg' = s.info_msg
    /\ last' = [last EXCEPT !.out.phase = "returned"]
    /\ UNCHANGED <<buffer, bufnr, saved_sync, endpoints, send_queue, coqtop>>

\* The command has returned and the editor waits for the next one
RunReturn ==
    /\ last.op = "running"
    /\ last.out.phase = "returned"
    /\ last' = Idle
    /\ UNCHANGED <<buffer, bufnr, saved_sync, endpoints, send_queue, error_at, info_msg,
                   coqtop>>

\* The steps of a command that runs: the code goes on until it returns
RunStep ==
    \/ RunScan
    \/ RunQueueOne
    \/ RunQueue
    \/ RunDispatch
    \/ RunRefresh

RunNext ==
    \/ RunAdvanceOne
    \/ RunAdvanceToCursor
    \/ RunStep
    \/ RunReturn

\* Python runs a command's statements one after the other until it returns
RunSpec == RunInit /\ [][RunNext]_vars /\ WF_vars(RunStep)

(***************************************************************************)
(* Properties                                                              *)
(***************************************************************************)
\* The checkpoint a dispatched chunk leaves when accepted
Checkpoint(unit) == <<unit.stop[1], unit.stop[2] + 1>>

Checkpoints(units) == [i \in 1..Len(units) |-> Checkpoint(units[i])]

IsDispatch(c) == c.call = "dispatch"

IsRewind(c) == c.call = "rewind"

\* The dispatches and the rewinds of the last command, in order
Dispatched == SelectSeq(last.calls, IsDispatch)

Rewound == SelectSeq(last.calls, IsRewind)

\* The queue the last command drained, and the stack when the drain began
Drained == last.queued # <<>>

Queued == last.queued[1]

Synced == last.synced[1]

Ok == [kind |-> "ok"]

\* C1: drain-queue atomicity.  When the prover accepts chunks 1..k-1 of the
\* queue and rejects chunk k, the stack has grown by exactly the checkpoints
\* of chunks 1..k-1 in queue order, each (stop.line, stop.col + 1); chunks
\* k+1..m were never dispatched; and the send queue is empty.
C1_DrainAtomicity ==
    Drained =>
        \A k \in 1..Len(Queued) :
            last.in.answers = Append(Repeat(Ok, k - 1), [kind |-> "reject"]) =>
                /\ endpoints = Synced \o Checkpoints(SubSeq(Queued, 1, k - 1))
                /\ Len(Dispatched) = k
                /\ \A i \in 1..k : Dispatched[i].unit = Queued[i]
                /\ send_queue = <<>>

\* A queue of three chunks whose second chunk is rejected
C1_Witness ==
    /\ Drained
    /\ Len(Queued) = 3
    /\ last.in.answers = <<Ok, [kind |-> "reject"]>>

StrictlyIncreasing(stack) == \A i \in 1..(Len(stack) - 1) : PosLT(stack[i], stack[i + 1])

\* C2: in every reachable state the checkpoint stack is strictly increasing
\* in the lexicographic (line, column) order.
C2_StackStrictlyIncreasing == StrictlyIncreasing(endpoints)

\* A stack of three checkpoints built by advancing after a rewind took place
C2_Witness ==
    /\ last.op \in {"next", "to_cursor"}
    /\ Len(endpoints) = 3
    /\ Len(last.pre) = 2
    /\ last.in.sync_ans.kind = "ok"

OkAnswer(ans) == ans.kind = "ok"

NotAsked(ans) == ans.kind = "none"

Steps == last.in.arg[1]

\* C4: rewind(n) with 1 <= n <= depth, answered (True, e), removes exactly
\* n + e checkpoints from the end of the stack, all of them when fewer than
\* n + e remain, and leaves the prefix below them as it was.
C4_RewindPops ==
    (last.op = "rewind" /\ 1 <= Steps /\ Steps <= Len(last.pre) /\ OkAnswer(last.in.ans)) =>
        /\ Len(endpoints) = Max(0, Len(last.pre) - (Steps + last.in.ans.extra_steps))
        /\ endpoints = SubSeq(last.pre, 1, Len(endpoints))

\* rewind(1) on three checkpoints, answered with one extra step: one is left
C4_Witness ==
    /\ last.op = "rewind"
    /\ Steps = 1
    /\ Len(last.pre) = 3
    /\ OkAnswer(last.in.ans)
    /\ last.in.ans.extra_steps = 1
    /\ Len(endpoints) = 1

\* C5 as stated: rewind(n) with n >= 1 removes at least n checkpoints and
\* never leaves the stack longer, whatever the prover answers.
C5_RewindRemovesAtLeastN ==
    (last.op = "rewind" /\ Steps >= 1) =>
        /\ Len(last.pre) - Len(endpoints) >= Steps
        /\ Len(endpoints) <= Len(last.pre)

\* C5 as amended: rewind(n) with n >= 1 never leaves the stack longer,
\* whatever the prover answers; when the prover answers success it removes
\* at least min(n, depth) checkpoints; on an unexpected answer or a
\* CoqtopError it removes none.
C5_RewindMonotone ==
    (last.op = "rewind" /\ Steps >= 1) =>
        /\ Len(endpoints) <= Len(last.pre)
        /\ endpoints = SubSeq(last.pre, 1, Len(endpoints))
        /\ OkAnswer(last.in.ans) =>
               Len(last.pre) - Len(endpoints) >= Min(Steps, Len(last.pre))
        /\ ~OkAnswer(last.in.ans) => endpoints = last.pre

\* rewind(2) on three checkpoints answered with success and an extra step
C5_Witness ==
    /\ last.op = "rewind"
    /\ Steps = 2
    /\ Len(last.pre) = 3
    /\ OkAnswer(last.in.ans)
    /\ last.in.ans.extra_steps = 1

AtOrBefore(stack, target) ==
    SelectSeq(stack, LAMBDA pos : PosLE(pos, target))

After(stack, target) ==
    SelectSeq(stack, LAMBDA pos : PosGT(pos, target))

\* C6: rewind_to(target), with c the number of checkpoints strictly greater
\* than target: if c = 0 or the stack is empty the prover is not called and
\* the stack is unchanged; otherwise the prover is asked to retract exactly
\* once, with n = c, and after the answer (True, 0) the checkpoints left are
\* exactly those <= target.
C6_RewindTo ==
    last.op = "rewind_to" =>
        LET c == Len(After(last.pre, last.in.arg))
        IN  /\ (c = 0 \/ last.pre = <<>>) => (last.calls = <<>> /\ endpoints = last.pre)
            /\ c > 0 =>
                   /\ Len(Rewound) = 1
                   /\ Rewound[1].steps = c
                   /\ (OkAnswer(Rewound[1].ans) /\ Rewound[1].ans.extra_steps = 0) =>
                          endpoints = AtOrBefore(last.pre, last.in.arg)

\* rewind_to a position that one checkpoint equals and two lie after
C6_Witness ==
    /\ last.op = "rewind_to"
    /\ Len(last.pre) = 3
    /\ last.in.arg = last.pre[1]
    /\ OkAnswer(last.in.ans)
    /\ last.in.ans.extra_steps = 0
    /\ Len(endpoints) = 1

\* C7: after to_top() with the prover confirming the retraction, the
\* checkpoint stack is empty.
C7_ToTopEmpties ==
    (last.op = "to_top" /\ Len(Rewound) = 1 /\ OkAnswer(Rewound[1].ans)) => endpoints = <<>>

\* The zero-based position sync() rewinds to
SyncAnchor == <<last.in.pos[1] - 1, last.in.pos[2]>>

\* sync() ran on the buffer of saved_sync and the prover, if asked to
\* retract, answered success
SyncedSame ==
    /\ last.op \in {"next", "to_cursor"}
    /\ last.same
    /\ last.pre # <<>>
    /\ OkAnswer(last.in.sync_ans) \/ NotAsked(last.in.sync_ans)

\* C8 as stated: when sync() has run on the same buffer with the anchor at
\* p, no checkpoint at or after p is left when the command goes on.
C8_SyncRetractsAtOrAfter ==
    SyncedSame => \A i \in 1..Len(Synced) : ~PosLE(SyncAnchor, Synced[i])

\* C8 as amended: when sync() has run on the same buffer with the anchor at
\* p and the prover answered success, no checkpoint strictly after p is left
\* when the command goes on to scan or dispatch, and the checkpoints at or
\* before p are all kept unless the prover retracted extra steps.
C8_SyncRetractsAfter ==
    SyncedSame =>
        /\ \A i \in 1..Len(Synced) : PosLE(Synced[i], SyncAnchor)
        /\ (NotAsked(last.in.sync_ans) \/ last.in.sync_ans.extra_steps = 0) =>
               Synced = AtOrBefore(last.pre, SyncAnchor)

\* AdvanceOne on three checkpoints with the anchor on the first: the prover
\* retracts the two after it and the first stays
C8_Witness ==
    /\ SyncedSame
    /\ Len(last.pre) = 3
    /\ SyncAnchor = last.pre[1]
    /\ OkAnswer(last.in.sync_ans)
    /\ Synced = <<last.pre[1]>>

\* The cursor as a zero-based position
Cursor == <<last.in.arg[1] - 1, last.in.arg[2]>>

Frontier(stack) == IF stack # <<>> THEN stack[Len(stack)] ELSE <<0, 0>>

\* to_cursor() with the cursor before the frontier, the prover answering
\* (True, 0) if asked to retract
CursorBefore ==
    /\ last.op = "to_cursor"
    /\ PosLT(Cursor, Frontier(Synced))
    /\ \/ NotAsked(last.in.ans)
       \/ OkAnswer(last.in.ans) /\ last.in.ans.extra_steps = 0

\* C9 as stated: to_cursor() with the cursor before the frontier retracts
\* exactly the checkpoints strictly greater than the cursor position and
\* dispatches nothing.
C9_CursorRewindsToCursor ==
    CursorBefore =>
        /\ endpoints = AtOrBefore(Synced, Cursor)
        /\ Dispatched = <<>>

\* C9 as amended: to_cursor() with the cursor before the frontier retracts
\* exactly the checkpoints strictly greater than (cursor.line, cursor.col + 1),
\* so that a chunk ending on the cursor stays, and dispatches nothing.
C9_CursorRewindsPastCursor ==
    CursorBefore =>
        /\ endpoints = AtOrBefore(Synced, <<Cursor[1], Cursor[2] + 1>>)
        /\ Dispatched = <<>>

\* The cursor on the end of the first of three accepted chunks: the two
\* after it are retracted
C9_Witness ==
    /\ CursorBefore
    /\ Len(Synced) = 3
    /\ <<Cursor[1], Cursor[2] + 1>> = Synced[1]
    /\ endpoints = <<Synced[1]>>

\* to_cursor() with the cursor at or after the frontier
CursorAhead ==
    /\ last.op = "to_cursor"
    /\ ~PosLT(Cursor, Frontier(Synced))

\* Where the scan goes on after the chunks of a queue
AfterQueue(stack, queue) ==
    IF queue = <<>> THEN Frontier(stack) ELSE Checkpoint(queue[Len(queue)])

EndsAfterCursor(end_pos) == end_pos = None \/ PosGT(end_pos, Cursor)

\* C10: to_cursor() with the cursor at or after the frontier enqueues, in
\* document order, exactly the consecutive chunks from the frontier on that
\* end at or before the cursor, up to the first chunk that ends after the
\* cursor or the end of the scan, and drains that queue; when the prover
\* accepts them all, every new checkpoint is <= (cursor.line, cursor.col + 1)
\* and the next chunk after the new frontier, if any, ends after the cursor.
C10_AdvanceToCursor ==
    CursorAhead =>
        /\ Drained
        /\ \A i \in 1..Len(Queued) :
               /\ Queued[i].start = AfterQueue(Synced, SubSeq(Queued, 1, i - 1))
               /\ Queued[i].stop =
                      _find_next_chunk(buffer, Queued[i].start[1], Queued[i].start[2])
               /\ PosLE(Queued[i].stop, Cursor)
        /\ LET after == AfterQueue(Synced, Queued)
           IN  EndsAfterCursor(_find_next_chunk(buffer, after[1], after[2]))
        /\ Len(Dispatched) <= Len(Queued)
        /\ \A i \in 1..Len(Dispatched) : Dispatched[i].unit = Queued[i]
        /\ last.in.answers = Repeat(Ok, Len(Queued)) =>
               /\ endpoints = Synced \o Checkpoints(Queued)
               /\ \A i \in (Len(Synced) + 1)..Len(endpoints) :
                      PosLE(endpoints[i], <<Cursor[1], Cursor[2] + 1>>)
               /\ LET front == Frontier(endpoints)
                  IN  EndsAfterCursor(_find_next_chunk(buffer, front[1], front[2]))

\* The cursor on the period of the second of three sentences, nothing yet
\* accepted: two chunks are queued and accepted, the third is left
C10_Witness ==
    /\ CursorAhead
    /\ Drained
    /\ Synced = <<>>
    /\ Len(Queued) = 2
    /\ Queued[2].stop = Cursor
    /\ last.in.answers = <<Ok, Ok>>
    /\ Len(endpoints) = 2
    /\ _find_next_chunk(buffer, endpoints[2][1], endpoints[2][2]) # None

\* AdvanceOne found no chunk after the frontier sync() left
NoUnit ==
    /\ last.op = "next"
    /\ _find_next_chunk(buffer, Frontier(Synced)[1], Frontier(Synced)[2]) = None

\* C11 as stated: AdvanceOne, when the scanner finds no unit after the
\* frontier, is a no-op: the checkpoint stack and the send queue are as they
\* were before the call and no prover call is made.
C11_NoUnitNoOp ==
    NoUnit => (endpoints = last.pre /\ send_queue = <<>> /\ last.calls = <<>>)

\* C11 as amended: AdvanceOne, when the scanner finds no unit after the
\* frontier Synchronize left, does nothing beyond its Synchronize step: the
\* stack is as Synchronize left it, the queue is empty, nothing is dispatched
\* and the prover is called for Synchronize's retraction only; when
\* Synchronize retracts nothing on the same document the stack is unchanged
\* and no prover call is made.
C11_NoUnitOnlySyncs ==
    NoUnit =>
        /\ endpoints = Synced
        /\ send_queue = <<>>
        /\ ~Drained
        /\ Dispatched = <<>>
        /\ NotAsked(last.in.sync_ans) => last.calls = <<>>
        /\ ~NotAsked(last.in.sync_ans) =>
               (Len(Rewound) = 1 /\ \A i \in 1..Len(last.calls) : ~IsDispatch(last.calls[i]))
        /\ (last.same /\ NotAsked(last.in.sync_ans)) => endpoints = last.pre

\* All three sentences accepted and AdvanceOne called again at the end of
\* the document
C11_Witness ==
    /\ NoUnit
    /\ last.same
    /\ Len(last.pre) = 3
    /\ NotAsked(last.in.sync_ans)
    /\ endpoints = last.pre
    /\ last.calls = <<>>

\* The number of line breaks in the first o characters of text
Breaks(text, o) == Cardinality({i \in 1..o : text[i] = "\n"})

\* The number of characters after the last line break in the first o
\* characters of text
AfterBreak(text, o) ==
    LET breaks == {i \in 1..o : text[i] = "\n"}
    IN  IF breaks = {} THEN o ELSE o - (CHOOSE i \in breaks : \A j \in breaks : j <= i)

\* Where offset o of a text that starts at (L, C) lies in the document
Located(start, text, o) ==
    <<start[1] + Breaks(text, o),
      AfterBreak(text, o) + (IF Breaks(text, o) = 0 THEN start[2] ELSE 0)>>

\* "foo bar.\nbaz."
FooBar == <<"f", "o", "o", " ", "b", "a", "r", ".", "\n", "b", "a", "z", ".">>

\* C12: the error locator.  A rejected unit with start (L, C) and text T has
\* for error region [start, stop] when both offsets are -1; otherwise each
\* offset o maps to (L + k, c), k the number of line breaks in T[0..o) and c
\* the length of the text after the last of them, plus C only when k = 0.
\* "foo bar.\nbaz." at (5, 2) with offsets (4, 7) gives ((5,6),(5,9)).
C12_ErrorLocator ==
    /\ ErrorLocation([start |-> <<5, 2>>, stop |-> <<6, 3>>], FooBar, <<4, 7>>)
           = <<<<5, 6>>, <<5, 9>>>>
    /\ last.op = "locate" =>
           LET unit == last.out.to_send
               text == last.out.message
               loc == last.said.err_loc
           IN  IF loc = NoLocation THEN last.out.error_at = <<unit.start, unit.stop>>
               ELSE last.out.error_at =
                        <<Located(unit.start, text, loc[1]), Located(unit.start, text, loc[2])>>

\* A chunk that starts mid-line and ends on the next line, rejected with one
\* offset before the line break and one after it
C12_Witness ==
    /\ last.op = "locate"
    /\ last.out.to_send.start[2] > 0
    /\ last.out.to_send.stop[1] > last.out.to_send.start[1]
    /\ last.said.err_loc # NoLocation
    /\ Breaks(last.out.message, last.said.err_loc[1]) = 0
    /\ Breaks(last.out.message, last.said.err_loc[2]) = 1
    /\ last.said.err_loc[1] > 0
    /\ last.out.error_at[2][1] = last.out.to_send.start[1] + 1

RewindUnexpected ==
    /\ last.op \in {"rewind", "rewind_to", "to_top"}
    /\ last.in.ans.kind = "unexpected"

\* C14 as stated: after an unexpected answer to a Rewind request the engine
\* state is as before the call: checkpoint stack, send queue, error location
\* and informational output.
C14_UnexpectedLeavesAll ==
    RewindUnexpected =>
        /\ endpoints = last.pre
        /\ send_queue = <<>>
        /\ error_at = None
        /\ info_msg = last.pre_info

\* C14 as amended: after an unexpected answer to a Rewind request the
\* checkpoint stack, the send queue and the error location are as before the
\* call; the panels are refreshed all the same, so the informational output
\* is as before unless the goal query of the refresh answers with a
\* non-empty message, which then replaces it.
C14_UnexpectedKeepsStack ==
    RewindUnexpected =>
        /\ endpoints = last.pre
        /\ send_queue = <<>>
        /\ error_at = None
        /\ last.errors = <<>>
        /\ info_msg = IF last.said.goals.kind = "ok" /\ last.said.goals.msg # ""
                      THEN last.said.goals.msg
                      ELSE last.pre_info

\* rewind(1) on two checkpoints with a message in the info panel, answered
\* with success = false, the goal query answering with a message of its own
C14_Witness ==
    /\ RewindUnexpected
    /\ Len(last.pre) = 2
    /\ last.pre_info = "m"
    /\ last.said.goals = [kind |-> "ok", msg |-> "g"]
    /\ info_msg = "g"
    /\ endpoints = last.pre

\* The scanner found a chunk from the start position
Scanned == last.op = "scan" /\ last.out.to_send # None

ScanStart == last.in.arg

ScanStop == last.out.to_send.stop

\* What stands for the end of a line where a character is looked at
EndOfLine == ""

\* The character of the buffer at a position, EndOfLine past the last one
CharAt(pos) ==
    IF pos[2] < Len(BufLine(buffer, pos[1])) THEN BufLine(buffer, pos[1])[pos[2] + 1]
    ELSE EndOfLine

\* C15 as stated: the unit end the scanner returns is strictly greater than
\* the start position, also when the first character at the start is itself
\* a terminating period.
C15_StopAfterStart == Scanned => PosGT(ScanStop, ScanStart)

\* C15 as amended: the unit end the scanner returns is never before the
\* start position; it equals the start position exactly when the character
\* at the start is itself a terminating period (one at end of line or
\* followed by a space), and is strictly greater otherwise.
C15_StopNotBeforeStart ==
    Scanned =>
        /\ PosLE(ScanStart, ScanStop)
        /\ ScanStop = ScanStart <=>
               /\ CharAt(ScanStart) = "."
               /\ CharAt(<<ScanStart[1], ScanStart[2] + 1>>) \in {EndOfLine, " "}

\* The scan starts on a period followed by a space and ends there
C15_Witness ==
    /\ Scanned
    /\ ScanStart[2] > 0
    /\ CharAt(ScanStart) = "."
    /\ CharAt(<<ScanStart[1], ScanStart[2] + 1>>) = " "
    /\ ScanStop = ScanStart

\* The number of consecutive dots of a line up to and including index i
\* (one-based), and from index i on
RECURSIVE DotsUpTo(_, _)
DotsUpTo(line, i) ==
    IF i < 1 \/ i > Len(line) THEN 0
    ELSE IF line[i] # "." THEN 0
    ELSE 1 + DotsUpTo(line, i - 1)

RECURSIVE DotsFrom(_, _)
DotsFrom(line, i) ==
    IF i < 1 \/ i > Len(line) THEN 0
    ELSE IF line[i] # "." THEN 0
    ELSE 1 + DotsFrom(line, i + 1)

\* The length of the maximal run of dots a position lies in, 0 outside a run
DotRun(pos) ==
    IF CharAt(pos) # "." THEN 0
    ELSE DotsUpTo(BufLine(buffer, pos[1]), pos[2] + 1)
             + DotsFrom(BufLine(buffer, pos[1]), pos[2] + 1) - 1

\* C16: a run of exactly two dots never terminates a unit: the scanner never
\* returns the position of either dot of a ".." run, whatever follows the
\* run (another character, whitespace, or end of line).
C16_TwoDotsNeverTerminate == Scanned => DotRun(ScanStop) # 2

\* The line the scan starts on
StartLine == BufLine(buffer, ScanStart[1])

\* The columns of the dots of the start line at or after the start column
DotsAhead == {i \in ScanStart[2]..(Len(StartLine) - 1) : StartLine[i + 1] = "."}

FirstDot == CHOOSE i \in DotsAhead : \A j \in DotsAhead : i <= j

\* The first dot the scan meets: a dot is ahead on the start line, nothing
\* between the start and that dot opens a comment or a string, and the
\* first non-blank character there is not a bullet
MeetsFirstDot ==
    /\ last.op = "scan"
    /\ DotsAhead # {}
    /\ \A j \in ScanStart[2]..(FirstDot - 1) :
           /\ StartLine[j + 1] \notin {"(", "\""}
           /\ (\A k \in ScanStart[2]..(j - 1) : StartLine[k + 1] \in Whitespace)
                  => StartLine[j + 1] \notin bullets

\* The first dot met begins a run of three or more dots
MeetsEllipsis ==
    /\ MeetsFirstDot
    /\ DotsUpTo(StartLine, FirstDot) = 0
    /\ DotsFrom(StartLine, FirstDot + 1) >= 3

\* C17 as stated: a run of three or more dots terminates the unit at the
\* second dot of the run: scanning "Qed..." from (0,0) returns the position
\* of the second dot, and in general the returned column is that of the
\* run's second character.
C17_EllipsisEndsAtSecondDot ==
    MeetsEllipsis =>
        /\ last.out.to_send # None
        /\ ScanStop = <<ScanStart[1], FirstDot + 1>>

\* C17 as amended: a run of three or more dots terminates the unit at the
\* third dot of the run: scanning "Qed..." from (0,0) returns (0,5), the
\* position of the third dot, and in general, when the first dot the scan
\* meets begins a run of three or more dots, the returned column is that of
\* the run's third character and the unit's text ends with that dot.
C17_EllipsisEndsAtThirdDot ==
    /\ MeetsEllipsis =>
           /\ last.out.to_send # None
           /\ ScanStop = <<ScanStart[1], FirstDot + 2>>
           /\ last.out.message[Len(last.out.message)] = "."
    /\ (last.op = "scan" /\ buffer = DocEllipsis /\ ScanStart = <<0, 0>>) =>
           /\ MeetsEllipsis
           /\ last.out.to_send # None
           /\ ScanStop = <<0, 5>>

\* "Qed..." was scanned from (0,0) and a unit was found
C17_Witness ==
    /\ Scanned
    /\ buffer = DocEllipsis
    /\ ScanStart = <<0, 0>>
    /\ MeetsEllipsis

\* The first dot met is a single period: no dot on either side of it
MeetsSinglePeriod ==
    /\ MeetsFirstDot
    /\ DotsUpTo(StartLine, FirstDot) = 0
    /\ DotsFrom(StartLine, FirstDot + 1) = 1

\* The character after the first dot met, EndOfLine at end of line
AfterFirstDot == CharAt(<<ScanStart[1], FirstDot + 1>>)

\* C18: outside comments and strings, a single period terminates the unit
\* if and only if it is at end of line or is followed by a whitespace
\* character (space, tab or any other whitespace); a period followed by a
\* non-whitespace character is skipped and the scan continues after it.
C18_PeriodThenWhitespace ==
    MeetsSinglePeriod =>
        ((AfterFirstDot = EndOfLine \/ AfterFirstDot \in Whitespace)
            <=> (last.out.to_send # None /\ ScanStop = <<ScanStart[1], FirstDot>>))

\* The columns of the start line, from the start column on, that hold a
\* bullet with nothing but blanks between the start and them
BulletsFirst ==
    {b \in ScanStart[2]..(Len(StartLine) - 1) :
        /\ StartLine[b + 1] \in bullets
        /\ \A k \in ScanStart[2]..(b - 1) : StartLine[k + 1] \in Whitespace}

BulletCol == CHOOSE b \in BulletsFirst : TRUE

\* C19: bullets are one-character units: when the first non-whitespace,
\* non-comment character after the start position is one of { } - + *, the
\* unit ends at that character, so the unit's dispatched text ends with the
\* bullet (blanks after it apart) and the character following the bullet
\* belongs to the next unit, whatever that character is.
C19_BulletIsOneCharacter ==
    (last.op = "scan" /\ BulletsFirst # {}) =>
        /\ last.out.to_send # None
        /\ Len(last.out.message) >= BulletCol - ScanStart[2] + 1
        /\ last.out.message[BulletCol - ScanStart[2] + 1] = StartLine[BulletCol + 1]
        /\ \A i \in 1..Len(last.out.message) :
               i > BulletCol - ScanStart[2] + 1 => last.out.message[i] \in Whitespace

\* The document as one text, its lines joined by line breaks, and the
\* offset of a position in it
Text == JoinLines(buffer)

RECURSIVE Offset(_)
Offset(pos) ==
    IF pos[1] = 0 THEN pos[2]
    ELSE Offset(<<pos[1] - 1, Len(BufLine(buffer, pos[1] - 1))>>) + 1 + pos[2]

Opens(text, i) == i + 2 <= Len(text) /\ text[i + 1] = "(" /\ text[i + 2] = "*"

Closes(text, i) == i + 2 <= Len(text) /\ text[i + 1] = "*" /\ text[i + 2] = ")"

\* Whether the character at offset target lies inside a comment, delimiters
\* included, when the text is read from offset i at comment depth depth:
\* each "(*" raises the depth by one, each "*)" inside a comment lowers it
RECURSIVE InsideComment(_, _, _, _)
InsideComment(text, i, depth, target) ==
    IF i >= Len(text) \/ i > target THEN FALSE
    ELSE IF Opens(text, i)
    THEN target \in {i, i + 1} \/ InsideComment(text, i + 2, depth + 1, target)
    ELSE IF depth > 0 /\ Closes(text, i)
    THEN target \in {i, i + 1} \/ InsideComment(text, i + 2, depth - 1, target)
    ELSE IF target = i THEN depth > 0
    ELSE InsideComment(text, i + 1, depth, target)

\* The offset just after the "*)" that closes a comment read from offset i
\* at depth depth, or -1 when the text ends first
RECURSIVE CommentEnd(_, _, _)
CommentEnd(text, i, depth) ==
    IF i >= Len(text) THEN 0 - 1
    ELSE IF Opens(text, i) THEN CommentEnd(text, i + 2, depth + 1)
    ELSE IF Closes(text, i)
    THEN IF depth = 1 THEN i + 2 ELSE CommentEnd(text, i + 2, depth - 1)
    ELSE CommentEnd(text, i + 1, depth)

NoQuotes == \A l \in 1..Len(buffer) : \A c \in 1..Len(buffer[l]) : buffer[l][c] # "\""

\* The offsets from the start on that open a comment with nothing but
\* blanks and line breaks between the start and them
CommentsFirst ==
    {j \in Offset(ScanStart)..(Len(Text) - 1) :
        /\ Opens(Text, j)
        /\ \A k \in Offset(ScanStart)..(j - 1) : Text[k + 1] \in Whitespace \cup {"\n"}}

CommentFirst == CHOOSE j \in CommentsFirst : TRUE

\* C20: nested comments balance before the scan resumes: each "(*" before
\* the matching "*)" raises the depth by one and each "*)" lowers it, no
\* period or bullet inside a comment is taken as a unit end,
\* "(* a (* b *) c *) Qed." scans from (0,0) to the period of "Qed.", and a
\* comment never closed before end of document makes the scanner return None.
C20_NestedComments ==
    /\ (Scanned /\ NoQuotes /\ CharAt(ScanStop) = ".") =>
           ~InsideComment(Text, Offset(ScanStart), 0, Offset(ScanStop))
    /\ (Scanned /\ NoQuotes /\ CharAt(ScanStop) # ".") =>
           /\ ScanStop[2] >= 1
           /\ CharAt(<<ScanStop[1], ScanStop[2] - 1>>) \in bullets
           /\ ~InsideComment(Text, Offset(ScanStart), 0, Offset(ScanStop) - 1)
    /\ (Scanned /\ NoQuotes /\ CommentsFirst # {}) =>
           /\ CommentEnd(Text, CommentFirst + 2, 1) # 0 - 1
           /\ Offset(ScanStop) >= CommentEnd(Text, CommentFirst + 2, 1)
    /\ (last.op = "scan" /\ NoQuotes /\ CommentsFirst # {}
            /\ CommentEnd(Text, CommentFirst + 2, 1) = 0 - 1) =>
           last.out.to_send = None
    /\ (last.op = "scan" /\ buffer = DocNested /\ ScanStart = <<0, 0>>) =>
           /\ last.out.to_send # None
           /\ ScanStop = <<0, 21>>
           /\ CharAt(ScanStop) = "."

\* A document whose leading comment holds a nested comment, a period and a
\* bullet was scanned and the unit found ends after the comment
C20_Witness ==
    /\ Scanned
    /\ NoQuotes
    /\ CommentsFirst # {}
    /\ \E i \in (CommentFirst + 2)..(CommentEnd(Text, CommentFirst + 2, 1) - 3) :
           /\ Opens(Text, i)
           /\ \E j \in (i + 2)..(CommentEnd(Text, CommentFirst + 2, 1) - 3) : Text[j + 1] = "."
    /\ CharAt(ScanStop) = "."

\* C21: every unit dispatched to the prover as script text starts exactly
\* at the frontier current at the moment of dispatch (the last checkpoint,
\* or (0,0) when the stack is empty): queued units are dispatched strictly
\* in queue order, every queued unit starts at or after the frontier, and no
\* text before the frontier is re-sent without first being retracted.
C21_DispatchAtFrontier ==
    /\ \A i \in 1..Len(Dispatched) :
           /\ Dispatched[i].unit.start = Frontier(Dispatched[i].stack)
           /\ PosLE(Frontier(Dispatched[i].stack), Dispatched[i].unit.stop)
    /\ Dispatched # <<>> => Drained
    /\ Drained =>
           /\ Len(Dispatched) <= Len(Queued)
           /\ \A i \in 1..Len(Dispatched) : Dispatched[i].unit = Queued[i]
           /\ \A i \in 1..Len(Queued) : PosLE(Frontier(Synced), Queued[i].start)
           /\ \A i \in 1..(Len(Queued) - 1) : PosLT(Queued[i].start, Queued[i + 1].start)

\* A queue of three units drained after sync() retracted a checkpoint: each
\* unit was dispatched on top of a different stack
C21_Witness ==
    /\ Drained
    /\ Len(Queued) = 3
    /\ Len(Dispatched) = 3
    /\ last.pre # <<>>
    /\ Len(Synced) < Len(last.pre)
    /\ Dispatched[3].stack # <<>>

\* sync() ran as a command and found no cached revision or one of another
\* buffer
SyncReset == last.op = "sync" /\ ~last.same

\* C22: Synchronize() performs a full reset when no revision token is cached
\* or the current document's identity differs from the cached one: afterward
\* the checkpoint stack and send queue are empty, the error location is
\* unset and the informational output is empty, whatever the state was
\* before; in every case the cached token becomes the current revision.
C22_SyncResets ==
    /\ SyncReset =>
           /\ endpoints = <<>>
           /\ send_queue = <<>>
           /\ error_at = None
           /\ info_msg = ""
    /\ last.op = "sync" => saved_sync = CurrSync

\* sync() reset an engine that held checkpoints and a non-empty
\* informational output for another buffer
C22_Witness ==
    /\ SyncReset
    /\ Len(last.pre) = 2
    /\ last.pre_info # ""
    /\ saved_sync = CurrSync
    /\ bufnr = 2

\* The last command drained its queue and the drain was not left by a
\* dispatch error
DrainedThrough ==
    /\ Drained
    /\ \A i \in 1..Len(last.in.answers) : last.in.answers[i].kind # "error"

\* The messages that came with the units the prover accepted in the drain
AcceptedMsgs ==
    SelectSeq([i \in 1..Len(last.said.msgs) |->
                   IF last.in.answers[i].kind = "ok" THEN last.said.msgs[i] ELSE ""],
              LAMBDA msg : msg # "")

Operations == {"next", "to_cursor", "rewind", "rewind_to", "to_top", "sync"}

\* C24: whenever no engine operation is in progress, i.e. after AdvanceOne,
\* AdvanceToCursor, Rewind, RewindTo, ToTop or Synchronize has returned,
\* whatever the prover answered (accept, reject, unexpected response or
\* dispatch error), the send queue is empty.
C24_QueueEmptyAtRest == last.op \in Operations \cup {"idle"} => send_queue = <<>>

\* to_cursor() queued two units and the dispatch of the first ended in a
\* CoqtopError: the second was never dispatched and is not left queued
C24_Witness ==
    /\ last.op = "to_cursor"
    /\ Drained
    /\ Len(Queued) = 2
    /\ last.in.answers = <<[kind |-> "error"]>>
    /\ Len(Dispatched) = 1
    /\ send_queue = <<>>

\* A scan is under way and the scanner has not returned yet
ScanUnderWay ==
    /\ last.op = "running"
    /\ last.out.phase = "scan"
    /\ last.out.frame.pc # "done"

\* The scanner has returned to the command that runs
ScanOver ==
    /\ last.op = "running"
    /\ last.out.phase = "scan"
    /\ last.out.frame.pc = "done"

HasReturned == last.op = "running" /\ last.out.phase = "returned"

\* The step-by-step scanner returns what _find_next_chunk is
ScannerStepsAgree ==
    ScanOver =>
        last.out.frame.result = _find_next_chunk(buffer, last.out.start[1], last.out.start[2])

\* A step of the scanner ends the scan or strictly advances the position it
\* reads at; the one step that keeps it is the entry into the dot search
\* from the chunk loop, which no step leads back from without advancing
ScanAdvances ==
    ScanUnderWay =>
        \/ last'.out.frame.pc = "done"
        \/ PosLT(<<last.out.frame.line, last.out.frame.col>>,
                 <<last'.out.frame.line, last'.out.frame.col>>)
        \/ /\ last.out.frame.pc = "chunk"
           /\ last'.out.frame.pc = "dot"
           /\ last'.out.frame.line = last.out.frame.line
           /\ last'.out.frame.col = last.out.frame.col

\* The scanner returns None or a position of the document not before the
\* start of the scan
ScanEnds ==
    ScanOver =>
        \/ last.out.frame.result = None
        \/ /\ last.out.frame.result[1] < Len(buffer)
           /\ PosLE(last.out.start, last.out.frame.result)

\* The units to_cursor() has queued end one after the other, none after the
\* cursor: there are no more of them than positions up to the cursor
QueueBounded ==
    (last.op = "running" /\ last.out.cmd = "to_cursor") =>
        /\ \A i \in 1..Len(send_queue) : EndsByCursor(send_queue[i], last.in.arg)
        /\ \A i \in 1..(Len(send_queue) - 1) :
               PosLT(send_queue[i].stop, send_queue[i + 1].stop)

\* The drain has ended with the queue empty or at a dispatch that failed;
\* the one answer that is not an acceptance, if any, is the last the prover
\* gave
DrainEnds ==
    HasReturned =>
        /\ \/ send_queue = <<>>
           \/ /\ last.in.answers # <<>>
              /\ last.in.answers[Len(last.in.answers)].kind = "error"
        /\ \A i \in 1..(Len(last.in.answers) - 1) : last.in.answers[i].kind = "ok"

\* C25: every operation terminates on a finite document when every prover
\* call returns: the scanner (leading whitespace/comment loop, dot search,
\* comment and string skipping) strictly advances its position on each step
\* and ends with a position or None, AdvanceToCursor enqueues finitely many
\* units, and DrainQueue ends with an empty queue or at the first failure.
C25_Terminates ==
    /\ [][ScanAdvances]_vars
    /\ [](ScanEnds /\ QueueBounded /\ DrainEnds)
    /\ (last.op = "running") ~> HasReturned

\* to_cursor() on three sentences with the cursor on the last period has
\* returned after three scans, three units queued and three dispatches
C25_Witness ==
    /\ HasReturned
    /\ buffer = DocGoal
    /\ last.out.cmd = "to_cursor"
    /\ last.in.arg = <<3, 1>>
    /\ Len(last.in.answers) = 3
    /\ Len(endpoints) = 3
    /\ last.out.frame.result = None

====
